---------------------------- MODULE Spec2Model ----------------------------
(***************************************************************************)
(* Model of backend/main.py of the letter analyzer: the request handler    *)
(* analyze_letter (one outbound call to the completion endpoint, then the  *)
(* parser) and parse_ai_response (the scan over the lines of the reply).   *)
(*                                                                         *)
(* Python strings are sequences of one-character strings, so that strip,   *)
(* split, startswith, slicing and the substring test `in` are computed     *)
(* character by character, as the interpreter computes them.               *)
(***************************************************************************)
EXTENDS Integers, Sequences, FiniteSets, TLC

VARIABLES
    pc,               \* position in analyze_letter / parse_ai_response
    api_key,          \* os.getenv("OPENROUTER_API_KEY")
    upstream,         \* what requests.post will do for this request
    response,         \* the response object once requests.post returned
    calls,            \* outbound calls made by this request
    parses,           \* invocations of parse_ai_response by this request
    exc,              \* exception raised inside the try block, if any
    response_text,    \* argument of parse_ai_response
    lines,            \* response_text.split('\n')
    i,                \* index of the line the for loop is at
    current_section,
    summary,
    highlights,
    what_to_do,
    important_dates,
    email_prompt,
    outcome           \* what the request ends in

vars == <<pc, api_key, upstream, response, calls, parses, exc, response_text,
          lines, i, current_section, summary, highlights, what_to_do,
          important_dates, email_prompt, outcome>>

fields == <<summary, highlights, what_to_do, important_dates, email_prompt>>

-----------------------------------------------------------------------------
(* Python values *)

PyNone == [type |-> "NoneType"]

PyStr(s) == [type |-> "str", v |-> s]

IsStr(x) == x.type = "str"

HTTP_OK == 200

HTTP_INTERNAL_ERROR == 500

-----------------------------------------------------------------------------
(* str methods used by the parser *)

IsSpace(c) == c \in {" ", "\t", "\r", "\n", "\f"}

MinOf(S) == CHOOSE x \in S : \A y \in S : x <= y

MaxOf(S) == CHOOSE x \in S : \A y \in S : x >= y

\* s.strip()
Strip(s) ==
    LET keep == {k \in 1..Len(s) : ~IsSpace(s[k])}
    IN  IF keep = {} THEN <<>> ELSE SubSeq(s, MinOf(keep), MaxOf(keep))

\* m stands in s at position k
MatchAt(s, m, k) == \A q \in 1..Len(m) : s[k + q - 1] = m[q]

\* s.startswith(p)
StartsWith(s, p) == Len(p) <= Len(s) /\ MatchAt(s, p, 1)

\* the positions at which m occurs in s
Occurrences(s, m) == {k \in 1..(Len(s) - Len(m) + 1) : MatchAt(s, m, k)}

\* m in s
Contains(s, m) == \E k \in 1..(Len(s) - Len(m) + 1) : MatchAt(s, m, k)

RECURSIVE Split(_)
\* s.split('\n')
Split(s) ==
    LET nl == {k \in 1..Len(s) : s[k] = "\n"}
    IN  IF nl = {} THEN <<s>>
        ELSE LET k == MinOf(nl)
             IN  <<SubSeq(s, 1, k - 1)>> \o Split(SubSeq(s, k + 1, Len(s)))

-----------------------------------------------------------------------------
(* The literals of the parser *)

SummaryMarker == <<"*","*","S","u","m","m","a","r","y",":","*","*">>

HighlightsMarker == <<"*","*","H","i","g","h","l","i","g","h","t","s",":","*","*">>

WhatToDoMarker == <<"*","*","W","h","a","t"," ","T","o"," ","D","o",":","*","*">>

ImportantDatesMarker ==
    <<"*","*","I","m","p","o","r","t","a","n","t"," ","D","a","t","e","s",":","*","*">>

EmailPromptMarker ==
    <<"*","*","E","m","a","i","l"," ","P","r","o","m","p","t",":","*","*">>

BulletMarker == <<"-", " ">>

BoldMarker == <<"*", "*">>

NoSection == "None"

ListSections == {"highlights", "what_to_do", "important_dates"}

Sections == {"summary", "email_prompt"} \cup ListSections


Marker(s) ==
    CASE s = "summary"         -> SummaryMarker
      [] s = "highlights"      -> HighlightsMarker
      [] s = "what_to_do"      -> WhatToDoMarker
      [] s = "important_dates" -> ImportantDatesMarker
      [] s = "email_prompt"    -> EmailPromptMarker

-----------------------------------------------------------------------------
(* parse_ai_response *)

\* the defaults, with summary = None
InitialFieldsNoneSummary ==
    [current_section |-> NoSection,
     summary         |-> PyNone,
     highlights      |-> <<>>,
     what_to_do      |-> <<>>,
     important_dates |-> <<>>,
     email_prompt    |-> PyNone]

\* the defaults, with email_prompt = ""
InitialFieldsEmptyEmail ==
    [current_section |-> NoSection,
     summary         |-> PyStr(<<>>),
     highlights      |-> <<>>,
     what_to_do      |-> <<>>,
     important_dates |-> <<>>,
     email_prompt    |-> PyStr(<<>>)]

\* the locals before the loop
InitialFields ==
    [current_section |-> NoSection,
     summary         |-> PyStr(<<>>),
     highlights      |-> <<>>,
     what_to_do      |-> <<>>,
     important_dates |-> <<>>,
     email_prompt    |-> PyNone]

\* the header tests with == in place of `in`
HeaderOfExact(line) ==
    IF line = SummaryMarker THEN "summary"
    ELSE IF line = HighlightsMarker THEN "highlights"
    ELSE IF line = WhatToDoMarker THEN "what_to_do"
    ELSE IF line = ImportantDatesMarker THEN "important_dates"
    ELSE IF line = EmailPromptMarker THEN "email_prompt"
    ELSE NoSection

\* the header whose marker comes first in the line
HeaderOfFirstInLine(line) ==
    LET found == {s \in {"summary", "highlights", "what_to_do", "important_dates",
                         "email_prompt"} : Contains(line, Marker(s))}
    IN  IF found = {} THEN NoSection
        ELSE CHOOSE s \in found :
                \A t \in found :
                    MinOf(Occurrences(line, Marker(s))) <= MinOf(Occurrences(line, Marker(t)))

\* the header tests of the if/elif chain, in the order the chain makes them
HeaderOf(line) ==
    IF Contains(line, SummaryMarker) THEN "summary"
    ELSE IF Contains(line, HighlightsMarker) THEN "highlights"
    ELSE IF Contains(line, WhatToDoMarker) THEN "what_to_do"
    ELSE IF Contains(line, ImportantDatesMarker) THEN "important_dates"
    ELSE IF Contains(line, EmailPromptMarker) THEN "email_prompt"
    ELSE NoSection

\* content = line[2:], kept as sliced
BulletContentVerbatim(line) == SubSeq(line, 3, Len(line))

\* content = line[2:].strip()
BulletContent(line) == Strip(SubSeq(line, 3, Len(line)))

\* line.startswith("- ") and current_section in [...]
IsListItem(st, line) ==
    StartsWith(line, BulletMarker) /\ st.current_section \in ListSections

\* the summary test, refusing bullet lines as well
SetsSummaryNoBullets(st, line) ==
    /\ st.current_section = "summary"
    /\ line # <<>>
    /\ ~StartsWith(line, BoldMarker)
    /\ ~StartsWith(line, BulletMarker)

\* the summary test, without the test of the section
SetsSummaryAnySection(st, line) ==
    line # <<>> /\ ~StartsWith(line, BoldMarker)

\* current_section == "summary" and line and not line.startswith("**")
SetsSummary(st, line) ==
    st.current_section = "summary" /\ line # <<>> /\ ~StartsWith(line, BoldMarker)

\* current_section == "email_prompt" and line and not line.startswith("**")
SetsEmailPrompt(st, line) ==
    st.current_section = "email_prompt" /\ line # <<>> /\ ~StartsWith(line, BoldMarker)

\* summary = summary + line
AssignSummaryAppending(st, line) == [st EXCEPT !.summary = PyStr(@.v \o line)]

\* summary = line
AssignSummary(st, line) == [st EXCEPT !.summary = PyStr(line)]

\* email_prompt = line
AssignEmailPrompt(st, line) == [st EXCEPT !.email_prompt = PyStr(line)]

\* one iteration of `for line in lines`, on the locals st
LoopBody(st, raw) ==
    LET line == Strip(raw)
    IN  IF line = <<>> THEN st
        ELSE IF HeaderOf(line) # NoSection
            THEN [st EXCEPT !.current_section = HeaderOf(line)]
        ELSE IF IsListItem(st, line)
            THEN LET content == BulletContent(line)
                 IN  IF st.current_section = "highlights"
                         THEN [st EXCEPT !.highlights = Append(@, content)]
                     ELSE IF st.current_section = "what_to_do"
                         THEN [st EXCEPT !.what_to_do = Append(@, content)]
                     ELSE IF st.current_section = "important_dates"
                         THEN [st EXCEPT !.important_dates = Append(@, content)]
                     ELSE st
        ELSE IF SetsSummary(st, line) THEN AssignSummary(st, line)
        ELSE IF SetsEmailPrompt(st, line) THEN AssignEmailPrompt(st, line)
        ELSE st

\* the locals of the running scan
Locals ==
    [current_section |-> current_section,
     summary         |-> summary,
     highlights      |-> highlights,
     what_to_do      |-> what_to_do,
     important_dates |-> important_dates,
     email_prompt    |-> email_prompt]

SetLocals(st) ==
    /\ current_section' = st.current_section
    /\ summary' = st.summary
    /\ highlights' = st.highlights
    /\ what_to_do' = st.what_to_do
    /\ important_dates' = st.important_dates
    /\ email_prompt' = st.email_prompt

\* pydantic's validation of AnalysisResponse(summary: str, ..., email_prompt: Optional[str])
Validates(st) ==
    /\ IsStr(st.summary)
    /\ st.email_prompt.type \in {"str", "NoneType"}

\* the AnalysisResponse the function returns
Result(st) ==
    [kind            |-> "result",
     summary         |-> st.summary,
     highlights      |-> st.highlights,
     what_to_do      |-> st.what_to_do,
     important_dates |-> st.important_dates,
     email_prompt    |-> st.email_prompt]

RECURSIVE Scan(_, _)
\* the whole loop over ls, from the locals st
Scan(st, ls) == IF ls = <<>> THEN st ELSE Scan(LoopBody(st, Head(ls)), Tail(ls))

\* the defaults, the loop over the lines ls, and the record returned
ParseLines(ls) == Result(Scan(InitialFields, ls))

\* lines 154-162: split, the defaults, current_section = None.  A None
\* argument has no split: AttributeError.
ParseBegin ==
    /\ pc = "parse"
    /\ parses' = parses + 1
    /\ IF IsStr(response_text)
         THEN /\ lines' = Split(response_text.v)
              /\ i' = 1
              /\ SetLocals(InitialFields)
              /\ pc' = "loop"
              /\ exc' = exc
         ELSE /\ exc' = [kind |-> "AttributeError"]
              /\ pc' = "except"
              /\ UNCHANGED <<lines, i, current_section, fields>>
    /\ UNCHANGED <<api_key, upstream, response, calls, response_text, outcome>>

\* lines 164-190: one iteration of the loop
ParseLine ==
    /\ pc = "loop"
    /\ i <= Len(lines)
    /\ SetLocals(LoopBody(Locals, lines[i]))
    /\ i' = i + 1
    /\ UNCHANGED <<pc, api_key, upstream, response, calls, parses, exc,
                   response_text, lines, outcome>>

\* lines 192-198: build the AnalysisResponse and return it to analyze_letter
ParseReturn ==
    /\ pc = "loop"
    /\ i > Len(lines)
    /\ IF Validates(Locals)
         THEN /\ outcome' = Result(Locals)
              /\ pc' = "done"
              /\ exc' = exc
         ELSE /\ exc' = [kind |-> "ValidationError"]
              /\ pc' = "except"
              /\ outcome' = outcome
    /\ UNCHANGED <<api_key, upstream, response, calls, parses, response_text,
                   lines, i, current_section, fields>>

-----------------------------------------------------------------------------
(* analyze_letter *)

HTTPException(status, detail) ==
    [kind |-> "HTTPException", status_code |-> status, detail |-> detail]

\* f"OpenRouter API error: {response.text}"
UpstreamError(text) == [prefix |-> "OpenRouter API error: ", text |-> text]

\* f"Error analyzing letter: {str(e)}"
AnalyzeError(e) == [prefix |-> "Error analyzing letter: ", str |-> e]

\* not api_key
KeyMissing == api_key = PyNone \/ api_key = PyStr(<<>>)

\* the outbound call made without the test of the key
CheckKeySkipped ==
    /\ pc = "start"
    /\ pc' = "post"
    /\ UNCHANGED <<api_key, upstream, response, calls, parses, exc, response_text,
                   lines, i, current_section, fields, outcome>>

\* lines 57-66: read the upload, encode it, look the key up
CheckKey ==
    /\ pc = "start"
    /\ IF KeyMissing
         THEN /\ exc' = HTTPException(HTTP_INTERNAL_ERROR, "OpenRouter API key not configured")
              /\ pc' = "except"
         ELSE /\ pc' = "post"
              /\ exc' = exc
    /\ UNCHANGED <<api_key, upstream, response, calls, parses, response_text,
                   lines, i, current_section, fields, outcome>>

\* lines 69-137: requests.post, which returns a response or raises
Post ==
    /\ pc = "post"
    /\ calls' = calls + 1
    /\ IF upstream.kind = "raises"
         THEN /\ exc' = [kind |-> "ConnectionError"]
              /\ pc' = "except"
              /\ response' = response
         ELSE /\ response' = upstream
              /\ pc' = "status"
              /\ exc' = exc
    /\ UNCHANGED <<api_key, upstream, parses, response_text, lines, i,
                   current_section, fields, outcome>>

\* lines 139-145: the branch on response.status_code
CheckStatus ==
    /\ pc = "status"
    /\ IF response.status_code = HTTP_OK
         THEN IF response.json.ok
                THEN /\ response_text' = response.json.content
                     /\ pc' = "parse"
                     /\ exc' = exc
                ELSE /\ exc' = [kind |-> "JSONDecodeError"]
                     /\ pc' = "except"
                     /\ response_text' = response_text
         ELSE /\ exc' = HTTPException(response.status_code, UpstreamError(response.text))
              /\ pc' = "except"
              /\ response_text' = response_text
    /\ UNCHANGED <<api_key, upstream, response, calls, parses, lines, i,
                   current_section, fields, outcome>>

\* lines 147-148: except Exception as e
Except ==
    /\ pc = "except"
    /\ outcome' = [kind        |-> "error",
                   status_code |-> HTTP_INTERNAL_ERROR,
                   detail      |-> AnalyzeError(exc)]
    /\ pc' = "done"
    /\ UNCHANGED <<api_key, upstream, response, calls, parses, exc,
                   response_text, lines, i, current_section, fields>>

Next ==
    \/ CheckKey
    \/ Post
    \/ CheckStatus
    \/ ParseBegin
    \/ ParseLine
    \/ ParseReturn
    \/ Except

-----------------------------------------------------------------------------
(* The requests the model is run on *)

MaxPieces == 3

MaxLines == 3

MaxBlocks == 3

MaxContent == 1

RECURSIVE Join(_)
\* "\n".join(ls)
Join(ls) ==
    IF ls = <<>> THEN <<>>
    ELSE IF Len(ls) = 1 THEN ls[1]
    ELSE ls[1] \o <<"\n">> \o Join(Tail(ls))

LowerSummaryMarker == <<"*","*","s","u","m","m","a","r","y",":","*","*">>

Pieces ==
    {Marker(s) : s \in Sections}
        \cup {LowerSummaryMarker, BulletMarker, BoldMarker,
              <<"-">>, <<" ">>, <<"A">>, <<"B">>}

RECURSIVE LinesOf(_)
\* the lines made of at most n pieces
LinesOf(n) ==
    IF n = 0 THEN {<<>>}
    ELSE LinesOf(n - 1) \cup {l \o p : l \in LinesOf(n - 1), p \in Pieces}

\* a header and one line of content for each section, or nothing
Setups ==
    {<<>>}
        \cup {<<Marker(s), <<"-", " ", "A">> >> : s \in ListSections}
        \cup {<<Marker(s), <<"B">> >> : s \in {"summary", "email_prompt"}}

\* replies that end in one line of up to MaxPieces pieces
RichTexts == {Join(su \o <<l>>) : su \in Setups, l \in LinesOf(MaxPieces)}

SimpleLines ==
    {<<" ">>,
     <<"-", " ">> \o SummaryMarker \o <<" ", "A">>,
     HighlightsMarker, WhatToDoMarker, ImportantDatesMarker, EmailPromptMarker,
     <<"-", " ", "A">>,
     <<"-", " ", " ", "B", " ">>,
     <<"A">>,
     <<" ", "B", "\r">>,
     <<"*", "*", "a">>}

\* replies of up to MaxLines lines
LineTexts ==
    {<<>>} \cup {Join(ls) : ls \in UNION {[1..n -> SimpleLines] : n \in 1..MaxLines}}

SectionOrder == <<"summary", "highlights", "what_to_do", "important_dates", "email_prompt">>

HeaderLine(s) ==
    IF s = "summary" THEN SummaryMarker \o <<" ", "A">>
    ELSE IF s = "highlights" THEN <<"-", " ">> \o HighlightsMarker
    ELSE Marker(s)

ContentLines == {<<"-", " ", "A">>, <<"B">>}

Contents == UNION {[1..n -> ContentLines] : n \in 0..MaxContent}

RECURSIVE BlocksFrom(_, _, _)
\* the blocks of the sections of S, in the order of SectionOrder from k on
BlocksFrom(k, S, c) ==
    IF k > Len(SectionOrder) THEN <<>>
    ELSE (IF SectionOrder[k] \in S
            THEN <<HeaderLine(SectionOrder[k])>> \o c[SectionOrder[k]]
            ELSE <<>>) \o BlocksFrom(k + 1, S, c)

\* replies made of up to MaxBlocks section blocks
BlockTexts ==
    UNION {{Join(BlocksFrom(1, S, c)) : c \in [S -> Contents]} :
              S \in {T \in SUBSET Sections : Cardinality(T) \in 1..MaxBlocks}}

Unbound == [type |-> "unbound"]

NoResponseUpstreams ==
    {[kind |-> "raises"]}
        \cup {[kind |-> "response", status_code |-> s, text |-> b, json |-> [ok |-> FALSE]] :
                s \in {400, 401, 429, 500, 503}, b \in {<<>>, <<"e">>}}
        \cup {[kind |-> "response", status_code |-> HTTP_OK, text |-> <<"x">>,
               json |-> j] : j \in {[ok |-> FALSE], [ok |-> TRUE, content |-> PyNone]}}

ReplyUpstreams(texts) ==
    {[kind |-> "response", status_code |-> HTTP_OK, text |-> <<>>,
      json |-> [ok |-> TRUE, content |-> PyStr(t)]] : t \in texts}

InitOver(texts) ==
    /\ \/ /\ api_key \in {PyNone, PyStr(<<>>), PyStr(<<"k">>)}
          /\ upstream \in NoResponseUpstreams
       \/ /\ api_key \in {PyNone, PyStr(<<"k">>)}
          /\ upstream \in ReplyUpstreams(texts)
    /\ pc = "start"
    /\ response = PyNone
    /\ calls = 0
    /\ parses = 0
    /\ exc = PyNone
    /\ response_text = Unbound
    /\ lines = <<>>
    /\ i = 0
    /\ current_section = "unbound"
    /\ summary = Unbound
    /\ highlights = Unbound
    /\ what_to_do = Unbound
    /\ important_dates = Unbound
    /\ email_prompt = Unbound
    /\ outcome = [kind |-> "pending"]

Init == InitOver(RichTexts)

InitLines == InitOver(LineTexts)

InitBlocks == InitOver(BlockTexts)

\* requests whose reply ends in a line built from pieces
Spec == Init /\ [][Next]_vars

\* requests whose reply is any text of up to MaxLines lines
SpecLines == InitLines /\ [][Next]_vars

\* requests whose reply is made of section blocks
SpecBlocks == InitBlocks /\ [][Next]_vars

-----------------------------------------------------------------------------
(* What the claims speak of *)

\* a Python str: a sequence of characters
IsText(x) == IsStr(x) /\ \A k \in 1..Len(x.v) : x.v[k] \in STRING

\* a Python list of str
IsTextList(xs) == \A k \in 1..Len(xs) : IsText(PyStr(xs[k]))

\* the reply reached parse_ai_response as a str
TextGiven == parses > 0 /\ IsStr(response_text)

\* parse_ai_response returned its record to the caller
Parsed == pc = "done" /\ outcome.kind = "result"

\* the line the loop has just processed, stripped as the loop strips it
LastLine == Strip(lines[i - 1])

\* the loop has processed at least one line
Stepped == pc = "loop" /\ i > 1

\* the markers that occur in a line
MarkersIn(line) == {s \in Sections : Contains(line, Marker(s))}

\* the section in force when line j is scanned: that of the last header line before it
SectionAt(j) ==
    LET hs == {k \in 1..(j - 1) : MarkersIn(lines[k]) # {}}
    IN  IF hs = {} THEN NoSection ELSE HeaderOf(Strip(lines[MaxOf(hs)]))

-----------------------------------------------------------------------------
(* C1 *)

ParserSafe ==
    TextGiven =>
        /\ exc = PyNone
        /\ pc \in {"loop", "done"}
        /\ pc = "loop" =>
              /\ i \in 1..(Len(lines) + 1)
              /\ IsText(summary)
              /\ IsTextList(highlights)
              /\ IsTextList(what_to_do)
              /\ IsTextList(important_dates)
              /\ email_prompt = PyNone \/ IsText(email_prompt)
        /\ pc = "done" =>
              /\ DOMAIN outcome = {"kind", "summary", "highlights", "what_to_do",
                                   "important_dates", "email_prompt"}
              /\ outcome.kind = "result"
              /\ IsText(outcome.summary)
              /\ IsTextList(outcome.highlights)
              /\ IsTextList(outcome.what_to_do)
              /\ IsTextList(outcome.important_dates)
              /\ outcome.email_prompt = PyNone \/ IsText(outcome.email_prompt)

\* each step of the scan moves to the next line, and past the last line the
\* function returns
ScanAdvances ==
    (pc = "loop" /\ TextGiven) =>
        \/ i <= Len(lines) /\ i' = i + 1 /\ pc' = "loop"
        \/ i > Len(lines) /\ Parsed'

\* C1: parse_ai_response is total.  Whatever text it is given (the empty text,
\* blank lines only, headers without content, ...), the scan raises nothing,
\* stays within the lines, moves on by one line at each step, returns once
\* past the last line, and returns a record of exactly the five fields: summary a str, the three
\* lists lists of str, email_prompt a str or None.
C1_ParserTotal ==
    /\ []ParserSafe
    /\ [][ScanAdvances]_vars

\* a reply of header lines only has been parsed, to the defaults
C1_Witness ==
    /\ Parsed
    /\ Len(lines) >= 2
    /\ \A k \in 1..Len(lines) : MarkersIn(lines[k]) # {}
    /\ outcome = Result(InitialFields)

-----------------------------------------------------------------------------
(* C2 *)

\* the completion endpoint answered with a status other than 200
UpstreamRefused == response # PyNone /\ response.status_code # HTTP_OK

\* C2: when the completion endpoint answers with a status S other than 200,
\* the request ends in an error whose status is S and whose message is the
\* upstream-failure message built from the body of the answer, and the parser
\* is not invoked.
C2_UpstreamStatusKept ==
    (pc = "done" /\ UpstreamRefused) =>
        /\ outcome.kind = "error"
        /\ outcome.status_code = response.status_code
        /\ outcome.detail = UpstreamError(response.text)
        /\ parses = 0

-----------------------------------------------------------------------------
(* C9 *)

\* C9: a request makes at most one outbound call (no retry), none when the
\* key is not configured; the parser is invoked at most once, and only after
\* the call returned status 200; and the request ends in exactly one of a
\* parsed result and an error, set when it ends and not before.
C9_OneCallOneParse ==
    /\ calls <= 1
    /\ parses <= 1
    /\ KeyMissing => calls = 0
    /\ parses = 1 => (calls = 1 /\ response # PyNone /\ response.status_code = HTTP_OK)
    /\ pc = "done" => outcome.kind \in {"result", "error"}
    /\ pc # "done" => outcome.kind = "pending"
    /\ outcome.kind = "result" => parses = 1

\* a request ended in a parsed result after its one call
C9_Witness ==
    /\ pc = "done"
    /\ outcome.kind = "result"
    /\ calls = 1
    /\ parses = 1
    /\ Len(lines) >= 2

-----------------------------------------------------------------------------
(* Claims about one line of the scan *)

\* the loop is about to process lines[i]
Scanning == pc = "loop" /\ i <= Len(lines)

\* the stripped line the loop is about to process
ThisLine == Strip(lines[i])

\* a bullet line without a marker, met outside the three list sections
StrayBullet ==
    /\ Scanning
    /\ StartsWith(ThisLine, BulletMarker)
    /\ MarkersIn(lines[i]) = {}
    /\ current_section \notin ListSections

\* C3 as stated: a line that begins with "- " and contains no marker is
\* ignored when the current section is none, Summary or Email Prompt: the five
\* fields and the current section are left unchanged.
C3_StrayBulletIgnored ==
    [][StrayBullet => UNCHANGED <<fields, current_section>>]_vars

\* C3 (amended): such a line is ignored only when the current section is
\* none.  In Summary the whole stripped line, "- " included, becomes summary,
\* and in Email Prompt it becomes email_prompt; the other fields and the
\* current section are left unchanged.
C3_StrayBulletKept ==
    [][StrayBullet =>
         /\ UNCHANGED <<current_section, highlights, what_to_do, important_dates>>
         /\ current_section = NoSection => UNCHANGED <<summary, email_prompt>>
         /\ current_section = "summary" =>
               summary' = PyStr(ThisLine) /\ email_prompt' = email_prompt
         /\ current_section = "email_prompt" =>
               email_prompt' = PyStr(ThisLine) /\ summary' = summary]_vars

\* a bullet line has just been scanned in Summary, and is the summary
C3_Witness ==
    /\ Stepped
    /\ StartsWith(LastLine, BulletMarker)
    /\ MarkersIn(lines[i - 1]) = {}
    /\ current_section = "summary"
    /\ summary = PyStr(LastLine)
    /\ Len(LastLine) > 2

-----------------------------------------------------------------------------
(* C7 *)

\* C7: header detection is case-sensitive substring containment, and a header
\* line is never content.  A non-blank line that contains one of the five
\* literal markers anywhere (after a bullet marker, with text before or after
\* it) sets the current section to the section of a marker it contains and
\* leaves the five fields unchanged; a line that contains none of them, a
\* marker in another case included, leaves the current section unchanged.
C7_HeaderNeverContent ==
    [][Scanning =>
         /\ MarkersIn(lines[i]) # {} =>
               /\ current_section' \in MarkersIn(lines[i])
               /\ UNCHANGED fields
         /\ MarkersIn(lines[i]) = {} => current_section' = current_section]_vars

\* a line with text before its marker has just switched the section away from
\* Summary and left the summary of the lines before it alone
C7_Witness ==
    /\ Stepped
    /\ i = 4
    /\ MarkersIn(lines[1]) = {"summary"}
    /\ MarkersIn(lines[i - 1]) = {"email_prompt"}
    /\ ~StartsWith(LastLine, EmailPromptMarker)
    /\ current_section = "email_prompt"
    /\ summary = PyStr(<<"B">>)
    /\ email_prompt = PyNone

\* a line with the Summary marker in lower case has been scanned and is no header
C7_WitnessCase ==
    /\ Stepped
    /\ Contains(LastLine, LowerSummaryMarker)
    /\ current_section = NoSection

-----------------------------------------------------------------------------
(* C10 *)

Precedence == <<"summary", "highlights", "what_to_do", "important_dates", "email_prompt">>

\* the position of section s in the order of precedence
Rank(s) == CHOOSE k \in 1..Len(Precedence) : Precedence[k] = s

\* C10: when one line contains more than one marker, the current section after
\* it is the one that comes first in the order Summary, Highlights, What To
\* Do, Important Dates, Email Prompt, wherever the markers stand in the line.
C10_HeaderPrecedence ==
    [][(Scanning /\ Cardinality(MarkersIn(lines[i])) > 1) =>
         /\ current_section' \in MarkersIn(lines[i])
         /\ \A s \in MarkersIn(lines[i]) : Rank(current_section') <= Rank(s)]_vars

\* a line with the Email Prompt marker before the Summary marker has just set
\* the section to Summary
C10_Witness ==
    /\ Stepped
    /\ MarkersIn(lines[i - 1]) = {"summary", "email_prompt"}
    /\ MinOf(Occurrences(LastLine, EmailPromptMarker))
           < MinOf(Occurrences(LastLine, SummaryMarker))
    /\ current_section = "summary"

-----------------------------------------------------------------------------
(* Claims about the whole scan *)

\* the scan of a text is under way or over
InScan == TextGiven /\ (pc = "loop" \/ Parsed)

\* the number of lines scanned so far
Scanned == i - 1

\* line j is non-blank, holds no marker and does not begin with "**"
Qualifies(j) ==
    /\ Strip(lines[j]) # <<>>
    /\ MarkersIn(lines[j]) = {}
    /\ ~StartsWith(Strip(lines[j]), BoldMarker)

\* the section in force at each line of the reply
SectionOfLine == [j \in 1..Len(lines) |-> SectionAt(j)]

\* the qualifying lines among the first n, scanned while the section is s
\* (sec gives the section in force at each line)
QualifyingIn(sec, s, n) == {j \in 1..n : sec[j] = s /\ Qualifies(j)}

(* C4 *)

\* C4: last line wins.  summary is the stripped content of the last line that
\* is non-blank, holds no marker, does not begin with "**" and is scanned
\* while the current section is Summary, and "" if there is none;
\* email_prompt is the same for Email Prompt, and None if there is none.
\* Earlier such lines are overwritten, never concatenated.
C4_LastLineWins ==
    InScan =>
        LET sec == SectionOfLine
            inSummary == QualifyingIn(sec, "summary", Scanned)
            inEmail == QualifyingIn(sec, "email_prompt", Scanned)
        IN  /\ summary = IF inSummary = {} THEN PyStr(<<>>)
                         ELSE PyStr(Strip(lines[MaxOf(inSummary)]))
            /\ email_prompt = IF inEmail = {} THEN PyNone
                              ELSE PyStr(Strip(lines[MaxOf(inEmail)]))
            /\ Parsed =>
                  (outcome.summary = summary /\ outcome.email_prompt = email_prompt)

\* a reply with two different summary lines has been parsed
C4_Witness ==
    /\ Parsed
    /\ \E j, k \in QualifyingIn(SectionOfLine, "summary", Len(lines)) :
          j < k /\ Strip(lines[j]) # Strip(lines[k])
    /\ outcome.summary # PyStr(<<>>)

(* C5 *)

\* line j begins, once stripped, with "- "
IsBullet(j) == StartsWith(Strip(lines[j]), BulletMarker)

\* s without its leading whitespace
DropLeadingSpace(s) ==
    LET keep == {k \in 1..Len(s) : ~IsSpace(s[k])}
    IN  IF keep = {} THEN <<>> ELSE SubSeq(s, MinOf(keep), Len(s))

\* the stripped line j after its "- "
Remainder(j) == SubSeq(Strip(lines[j]), 3, Len(Strip(lines[j])))

RECURSIVE VerbatimItems(_, _, _)
\* the remainders, as they stand, of the bullet lines among the first n that
\* are scanned while the section is s
VerbatimItems(sec, s, n) ==
    IF n = 0 THEN <<>>
    ELSE VerbatimItems(sec, s, n - 1)
            \o (IF sec[n] = s /\ IsBullet(n) THEN <<Remainder(n)>> ELSE <<>>)

RECURSIVE Items(_, _, _)
\* the remainders, without leading whitespace, of the bullet lines without a
\* marker among the first n that are scanned while the section is s
Items(sec, s, n) ==
    IF n = 0 THEN <<>>
    ELSE Items(sec, s, n - 1)
            \o (IF sec[n] = s /\ IsBullet(n) /\ MarkersIn(lines[n]) = {}
                  THEN <<DropLeadingSpace(Remainder(n))>> ELSE <<>>)

\* C5 as stated: each list field is, in input order, the sequence of the
\* bullet lines scanned in its section, each item being the stripped line
\* with "- " removed and the remainder kept verbatim.
C5_ItemsVerbatim ==
    InScan =>
        LET sec == SectionOfLine
        IN  /\ highlights = VerbatimItems(sec, "highlights", Scanned)
            /\ what_to_do = VerbatimItems(sec, "what_to_do", Scanned)
            /\ important_dates = VerbatimItems(sec, "important_dates", Scanned)

\* C5 (amended): each list field is, in input order and with nothing
\* dropped, reordered or duplicated, the sequence of the bullet lines that
\* hold no header marker and are scanned in its section, each item being the
\* stripped line with "- " removed and the remainder stripped of the
\* whitespace that follows the marker; nothing else is done to an item.
C5_ItemsInOrder ==
    InScan =>
        LET sec == SectionOfLine
        IN  /\ highlights = Items(sec, "highlights", Scanned)
            /\ what_to_do = Items(sec, "what_to_do", Scanned)
            /\ important_dates = Items(sec, "important_dates", Scanned)
            /\ Parsed =>
                  /\ outcome.highlights = highlights
                  /\ outcome.what_to_do = what_to_do
                  /\ outcome.important_dates = important_dates

\* a reply with two different items in one list has been parsed, one of them
\* written with whitespace after the marker
C5_Witness ==
    /\ Parsed
    /\ Len(outcome.highlights) = 2
    /\ outcome.highlights[1] # outcome.highlights[2]
    /\ \E j \in 1..Len(lines) :
          IsBullet(j) /\ SectionAt(j) = "highlights" /\ IsSpace(Remainder(j)[1])

(* C6 *)

\* no line of the reply holds the marker of section s
NoHeaderFor(s) == \A j \in 1..Len(lines) : ~Contains(lines[j], Marker(s))

\* C6: a field leaves its default only through its own section.  If no line
\* of the reply holds the marker of a section, its field has its default:
\* summary "", the three lists empty, email_prompt None (and not "").  A reply
\* without any marker yields the five defaults.
C6_DefaultWithoutHeader ==
    InScan =>
        /\ NoHeaderFor("summary") => summary = PyStr(<<>>)
        /\ NoHeaderFor("highlights") => highlights = <<>>
        /\ NoHeaderFor("what_to_do") => what_to_do = <<>>
        /\ NoHeaderFor("important_dates") => important_dates = <<>>
        /\ NoHeaderFor("email_prompt") =>
              email_prompt = PyNone /\ email_prompt # PyStr(<<>>)
        /\ Parsed =>
              /\ NoHeaderFor("summary") => outcome.summary = PyStr(<<>>)
              /\ NoHeaderFor("highlights") => outcome.highlights = <<>>
              /\ NoHeaderFor("what_to_do") => outcome.what_to_do = <<>>
              /\ NoHeaderFor("important_dates") => outcome.important_dates = <<>>
              /\ NoHeaderFor("email_prompt") => outcome.email_prompt = PyNone

\* a reply with a summary and plain lines but no Email Prompt marker has been
\* parsed, and its email_prompt is None
C6_Witness ==
    /\ Parsed
    /\ NoHeaderFor("email_prompt")
    /\ ~NoHeaderFor("summary")
    /\ outcome.summary # PyStr(<<>>)
    /\ outcome.email_prompt = PyNone
    /\ Qualifies(1)

-----------------------------------------------------------------------------
(* C8 *)

\* the header lines of the reply
HeaderIdx == {j \in 1..Len(lines) : MarkersIn(lines[j]) # {}}

\* the reply is made of section blocks: it begins with a header line, each
\* header line holds exactly one marker, and no section comes twice
IsBlockText ==
    /\ 1 \in HeaderIdx
    /\ \A j \in HeaderIdx : Cardinality(MarkersIn(lines[j])) = 1
    /\ \A j, k \in HeaderIdx : j # k => MarkersIn(lines[j]) # MarkersIn(lines[k])

\* the block that begins at header line h, H being the header lines: h and
\* the lines up to the next header
Block(H, h) ==
    SubSeq(lines, h, MinOf({k \in H : k > h} \cup {Len(lines) + 1}) - 1)

\* the orders in which the blocks that begin at the lines of H can be put
BlockOrders(H) ==
    {f \in [1..Cardinality(H) -> H] : \A a, b \in DOMAIN f : f[a] = f[b] => a = b}

RECURSIVE BlocksInOrder(_, _, _)
\* the lines of the blocks blocks[f[k]], blocks[f[k+1]], ...
BlocksInOrder(blocks, f, k) ==
    IF k > Len(f) THEN <<>> ELSE blocks[f[k]] \o BlocksInOrder(blocks, f, k + 1)

\* C8: section order does not matter.  For a reply made of section blocks
\* (a header line with exactly one marker, then lines without a marker; each
\* section at most once), every permutation of the blocks parses to the same
\* five fields.
C8_BlockOrderIrrelevant ==
    (TextGiven /\ Parsed /\ IsBlockText) =>
        LET H == HeaderIdx
            blocks == [h \in H |-> Block(H, h)]
        IN  \A f \in BlockOrders(H) :
                ParseLines(BlocksInOrder(blocks, f, 1)) = outcome

\* a reply of three blocks, each with content that reaches its field, has
\* been parsed
C8_Witness ==
    /\ TextGiven
    /\ Parsed
    /\ IsBlockText
    /\ Cardinality(HeaderIdx) = 3
    /\ Len(lines) = 6
    /\ outcome.summary # PyStr(<<>>)
    /\ outcome.highlights # <<>>
    /\ outcome.email_prompt # PyNone

=============================================================================
